---- MODULE Spec2Model ----
(***************************************************************************)
(* Microactivity classification engine (microactivity_detector.py), its    *)
(* inference entry points (ml_inference.py) and the camera command module  *)
(* (camera.py).                                                            *)
(*                                                                         *)
(* Numbers.  Python floats are modelled in fixed point:                    *)
(*   - IoU / overlap values in parts per million (PPM), rounded down;      *)
(*   - normalised centre distances in thousandths (MILLI), rounded down;   *)
(*   - confidences in ten-thousandths (CONF), the resolution at which      *)
(*     _process_single_frame rounds its result (round(..., 4));            *)
(*   - window confidences in hundredths (round(..., 2)).                   *)
(* The 1e-6 terms the code adds to denominators only guard divisions by    *)
(* zero; they are below the fixed-point resolution and are left out.       *)
(* Optional values (None or a value) are sequences of length 0 or 1.       *)
(***************************************************************************)
EXTENDS Integers, Sequences, FiniteSets, TLC

VARIABLES
    \* ---- MicroactivityDetector instance (shared by all callers) ----
    lock,            \* self.lock: 0 when free, else the thread holding it
    frame_id,        \* self.frame_id
    frame_buffer,    \* self.frame_buffer   (deque, never written)
    activity_buffer, \* self.activity_buffer (deque, never written)
    raw2canon,       \* self.raw2canon: the synonym table
    \* ---- one call per thread: entry point, arguments, locals ----
    pc,              \* position of each thread in its call
    entry,           \* which entry point the thread called
    frame_list,      \* the call's frame_list argument
    idx,             \* index of the frame being processed (for-loop position)
    tmp_id,          \* value of self.frame_id read by "self.frame_id += 1"
    activities,      \* local list activities
    confidences,     \* local list confidences
    result,          \* what the call returned (or that it raised)
    \* ---- bookkeeping of the run ----
    calls,           \* number of calls started
    processed,       \* number of frames handed to _process_single_frame
    last_in,         \* the thread whose frame entered the model last (0: none yet)
    held,            \* one finished call kept for comparison: None or
                     \* <<[entry, frame_list, result]>>
    \* ---- single-frame classification (SpecFrame) ----
    frame,           \* the frame handed to _process_single_frame
    fpc,             \* "ready" | "done"
    flocals,         \* the locals of _process_single_frame at its end
    fres,            \* its return value
    \* ---- window aggregation (SpecWindow) ----
    wacts, wconfs,   \* per-frame activities and confidences of one window
    wpc,             \* "ready" | "done"
    wres,            \* the WindowResult
    \* ---- camera module (SpecCamera) ----
    camera,          \* global camera: None (<<>>) or <<[opened |-> b]>>
    commands,        \* the argument of handle_commands
    cam_pc,          \* "running" | "returned"
    exit_code,       \* handle_commands' return value (<<>> while running)
    cam_trace,       \* the commands executed so far, each with its outcome
    executed         \* number of commands handle_commands has taken from its list

detVars  == <<lock, frame_id, frame_buffer, activity_buffer, raw2canon>>
callVars == <<pc, entry, frame_list, idx, tmp_id, activities, confidences, result>>
runVars  == <<calls, processed, last_in, held>>
frameVars == <<frame, fpc, flocals, fres>>
winVars  == <<wacts, wconfs, wpc, wres>>
camVars  == <<camera, commands, cam_pc, exit_code, cam_trace, executed>>
vars == <<detVars, callVars, runVars, frameVars, winVars, camVars>>

----------------------------------------------------------------------------
(* Generic helpers *)

None == <<>>
Some(x) == <<x>>
IsNone(o) == o = <<>>
Val(o) == o[1]

Max2(a, b) == IF a >= b THEN a ELSE b
Min2(a, b) == IF a <= b THEN a ELSE b

RECURSIVE SumSeq(_)
SumSeq(s) == IF s = <<>> THEN 0 ELSE Head(s) + SumSeq(Tail(s))

RECURSIVE MinSeq(_)
MinSeq(s) == IF Len(s) = 1 THEN s[1] ELSE Min2(Head(s), MinSeq(Tail(s)))

RECURSIVE IsqrtIn(_, _, _)
IsqrtIn(n, lo, hi) ==
    IF lo >= hi THEN lo
    ELSE LET mid == (lo + hi + 1) \div 2
         IN  IF mid * mid <= n THEN IsqrtIn(n, mid, hi) ELSE IsqrtIn(n, lo, mid - 1)

\* floor(sqrt(n)) for 0 <= n < 2^30
Isqrt(n) == IsqrtIn(n, 0, 32767)

\* round(num/den) to the nearest integer, exact halves to the even neighbour
\* (Python's round); num >= 0, den > 0
RoundDiv(num, den) ==
    LET q == num \div den
        r == num % den
    IN  IF 2 * r < den THEN q
        ELSE IF 2 * r > den THEN q + 1
        ELSE IF q % 2 = 0 THEN q ELSE q + 1

\* fixed-point units (resolutions of the model, not values of the program)
PPM == 1000 * 1000
MILLI == 10 * 100
CONF == 100 * 100

----------------------------------------------------------------------------
(* MicroactivityDetector.__init__ : synonym table *)

NAME_SYNONYMS ==
    [c \in {"syringe", "gloves", "training arm", "rubber band", "disinfectant wipe"} |->
        CASE c = "syringe" -> {"white and blue syringe", "syringe", "blue-white syringe"}
          [] c = "gloves" -> {"white gloves", "gloves"}
          [] c = "training arm" -> {"orange arm", "training arm", "arm"}
          [] c = "rubber band" -> {"yellow rubber band", "rubber band", "tourniquet"}
          [] c = "disinfectant wipe" ->
                {"disinfectant wipe", "white wipe", "wipe", "sponge", "gauze", "cotton",
                 "cotton pad", "alcohol pad", "swab", "swab pad", "pad", "towel"}]

\* self.raw2canon = {s.lower(): canon for canon, syns in ... for s in syns}
Raw2CanonTable ==
    [s \in UNION {NAME_SYNONYMS[c] : c \in DOMAIN NAME_SYNONYMS} |->
        CHOOSE c \in DOMAIN NAME_SYNONYMS : s \in NAME_SYNONYMS[c]]

\* str.lower() on the class names the detector reports
Lower(name) ==
    CASE name = "Gloves" -> "gloves"
      [] name = "Syringe" -> "syringe"
      [] OTHER -> name

\* self.raw2canon.get(cname, cname)
Canon(table, cname) == IF cname \in DOMAIN table THEN table[cname] ELSE cname

----------------------------------------------------------------------------
(* Geometry helpers *)

\* compute_iou(a, b): bounding box IoU, in PPM
compute_iou(a, b) ==
    LET xA == Max2(a[1], b[1])
        yA == Max2(a[2], b[2])
        xB == Min2(a[3], b[3])
        yB == Min2(a[4], b[4])
        inter == Max2(0, xB - xA) * Max2(0, yB - yA)
        areaA == (a[3] - a[1]) * (a[4] - a[2])
        areaB == (b[3] - b[1]) * (b[4] - b[2])
    IN  IF inter <= 0 THEN 0
        ELSE (inter * PPM) \div (areaA + areaB - inter)

\* bbox_center(b), doubled so that it stays an integer: (b0 + b2, b1 + b3)
bbox_center2(b) == <<b[1] + b[3], b[2] + b[4]>>

\* fused_iou(mask_a, mask_b, box_a, box_b, alpha=0.7), in PPM;
\* masks are optional sets of pixels
fused_iou(mask_a, mask_b, box_a, box_b) ==
    LET iou_mask ==
            IF IsNone(mask_a) \/ IsNone(mask_b) THEN 0
            ELSE LET inter_area == Cardinality(Val(mask_a) \cap Val(mask_b))
                 IN  IF inter_area = 0 THEN 0
                     ELSE LET union_area == Cardinality(Val(mask_a))
                                            + Cardinality(Val(mask_b)) - inter_area
                          IN  (inter_area * PPM) \div union_area
        iou_box == compute_iou(box_a, box_b)
    IN  (7 * iou_mask + 3 * iou_box) \div 10

----------------------------------------------------------------------------
(* _process_single_frame *)

\* Static thresholds for contact (lines 242-246), in the model's units
SYR_IOU_MIN == 50000    \* iou_syr > 0.05
SYR_DIST_MAX == 120     \* d_syr < 0.12
RUB_IOU_MIN == 50000    \* iou_rub > 0.05
RUB_DIST_MAX == 120     \* d_rub < 0.12
ARM_IOU_MIN == 10000    \* iou_arm > 0.01

NoClear == "No clear activity"

\* mask_by_class / box_by_class / conf_by_class .get(cname, []): the detections
\* whose canonical name is cname, in detector output order
Bucket(table, dets, cname) ==
    SelectSeq(dets, LAMBDA d : Canon(table, Lower(d.name)) = cname)

\* "Merge gloves": fused mask of the first two glove detections, or None
glove_mask_of(GLOVES) ==
    IF Len(GLOVES) >= 2 THEN Some(GLOVES[1].mask \cup GLOVES[2].mask) ELSE None

\* "Merge gloves": enclosing box of the first two glove detections, or None
glove_box_of(GLOVES) ==
    IF Len(GLOVES) >= 2
    THEN Some(<<Min2(GLOVES[1].box[1], GLOVES[2].box[1]),
                Min2(GLOVES[1].box[2], GLOVES[2].box[2]),
                Max2(GLOVES[1].box[3], GLOVES[2].box[3]),
                Max2(GLOVES[1].box[4], GLOVES[2].box[4])>>)
    ELSE None

\* d = ((g_cx - bx)**2 + (g_cy - by)**2)**0.5 / img_diag, in MILLI;
\* diag2 = W**2 + H**2
center_dist(glove_box, b, diag2) ==
    LET g == bbox_center2(glove_box)
        c == bbox_center2(b)
        dd == (g[1] - c[1]) * (g[1] - c[1]) + (g[2] - c[2]) * (g[2] - c[2])
    IN  Isqrt((dd * MILLI * MILLI) \div (4 * diag2))

\* a mutant of avg_contact: an absent region reads as distance 0
avg_contact_zero_dist(glove_mask, glove_box, objs, diag2) ==
    IF IsNone(glove_mask) \/ IsNone(glove_box) \/ Len(objs) = 0
    THEN <<0, 0>>
    ELSE <<SumSeq([i \in 1..Len(objs) |->
                    fused_iou(glove_mask, Some(objs[i].mask), Val(glove_box), objs[i].box)])
             \div Len(objs),
           MinSeq([i \in 1..Len(objs) |-> center_dist(Val(glove_box), objs[i].box, diag2)])>>

\* avg_contact(glove_mask, glove_box, obj_masks, obj_boxes) -> <<mean iou, min dist>>;
\* objs zips obj_masks and obj_boxes; img_diag is the enclosing function's local
avg_contact(glove_mask, glove_box, objs, diag2) ==
    IF IsNone(glove_mask) \/ IsNone(glove_box) \/ Len(objs) = 0
    THEN <<0, MILLI>>
    ELSE <<SumSeq([i \in 1..Len(objs) |->
                    fused_iou(glove_mask, Some(objs[i].mask), Val(glove_box), objs[i].box)])
             \div Len(objs),
           MinSeq([i \in 1..Len(objs) |-> center_dist(Val(glove_box), objs[i].box, diag2)])>>

\* a mutant of activity_rules: the rubber-band rule is tried first and has lost
\* its "len(SYR) == 0"
activity_rules_tourniquet_first(L) ==
    IF L.nGLOVES >= 2 /\ L.nARM > 0
       /\ (L.iou_rub > RUB_IOU_MIN \/ L.d_rub < RUB_DIST_MAX)
    THEN "Tourniquet"
    ELSE IF L.nGLOVES >= 2 /\ L.nARM > 0 /\ L.nSYR > 0
            /\ (L.iou_syr > SYR_IOU_MIN \/ L.d_syr < SYR_DIST_MAX)
    THEN "Injection"
    ELSE IF L.nGLOVES >= 2 /\ L.nARM > 0 /\ L.nSYR = 0
            /\ (L.nWIPE > 0 \/ L.iou_arm > ARM_IOU_MIN)
    THEN "Disinfection"
    ELSE NoClear

\* a mutant of activity_rules: the disinfection rule has lost its "not SYR"
activity_rules_no_veto(L) ==
    IF L.nGLOVES >= 2 /\ L.nARM > 0 /\ L.nSYR > 0
       /\ (L.iou_syr > SYR_IOU_MIN \/ L.d_syr < SYR_DIST_MAX)
    THEN "Injection"
    ELSE IF L.nGLOVES >= 2 /\ L.nARM > 0
            /\ (L.iou_rub > RUB_IOU_MIN \/ L.d_rub < RUB_DIST_MAX) /\ L.nSYR = 0
    THEN "Tourniquet"
    ELSE IF L.nGLOVES >= 2 /\ L.nARM > 0
            /\ (L.nWIPE > 0 \/ L.iou_arm > ARM_IOU_MIN)
    THEN "Disinfection"
    ELSE NoClear

\* "Rule-based activity detection": the if / elif chain of lines 236-247 over
\* the bucket sizes and contact scores L
activity_rules(L) ==
    IF L.nGLOVES >= 2 /\ L.nARM > 0 /\ L.nSYR > 0
       /\ (L.iou_syr > SYR_IOU_MIN \/ L.d_syr < SYR_DIST_MAX)
    THEN "Injection"
    ELSE IF L.nGLOVES >= 2 /\ L.nARM > 0
            /\ (L.iou_rub > RUB_IOU_MIN \/ L.d_rub < RUB_DIST_MAX) /\ L.nSYR = 0
    THEN "Tourniquet"
    ELSE IF L.nGLOVES >= 2 /\ L.nARM > 0 /\ L.nSYR = 0
            /\ (L.nWIPE > 0 \/ L.iou_arm > ARM_IOU_MIN)
    THEN "Disinfection"
    ELSE NoClear

\* _mean_or_zero(seq) as the fraction <<sum, count>> (<<0, 1>> for an empty seq)
mean_or_zero(bucket) ==
    IF Len(bucket) > 0
    THEN <<SumSeq([i \in 1..Len(bucket) |-> bucket[i].conf]), Len(bucket)>>
    ELSE <<0, 1>>

\* round(float(np.mean([a, b, c])), 4) of three fractions, in CONF
mean3(a, b, c) ==
    RoundDiv(a[1] * b[2] * c[2] + b[1] * a[2] * c[2] + c[1] * a[2] * b[2],
             3 * a[2] * b[2] * c[2])

\* round(float(np.mean([a, b])), 4) of two fractions, in CONF
mean2(a, b) == RoundDiv(a[1] * b[2] + b[1] * a[2], 2 * a[2] * b[2])

\* "Confidence aggregation" (lines 249-264)
conf_activity(activity, GLOVES, ARM, SYR, RUBBER, WIPE) ==
    LET conf_glv == mean_or_zero(GLOVES)
        conf_arm == mean_or_zero(ARM)
        conf_syr == mean_or_zero(SYR)
        conf_rub == mean_or_zero(RUBBER)
        conf_wip == mean_or_zero(WIPE)
    IN  IF activity = "Injection" THEN mean3(conf_glv, conf_arm, conf_syr)
        ELSE IF activity = "Tourniquet" THEN mean3(conf_glv, conf_arm, conf_rub)
        ELSE IF activity = "Disinfection"
             THEN IF Len(WIPE) > 0 THEN mean3(conf_glv, conf_arm, conf_wip)
                  ELSE mean2(conf_glv, conf_arm)
        ELSE 0

\* the locals of _process_single_frame before any detection was grouped
NoLocals ==
    [nGLOVES |-> 0, nARM |-> 0, nSYR |-> 0, nRUBBER |-> 0, nWIPE |-> 0,
     glove_mask |-> None, glove_box |-> None,
     iou_syr |-> 0, d_syr |-> 0, iou_rub |-> 0, d_rub |-> 0,
     iou_wip |-> 0, d_wip |-> 0, iou_arm |-> 0, d_arm |-> 0,
     activity |-> "", confidence |-> 0, raised |-> "", early |-> FALSE]

\* _process_single_frame(frame) with the instance's synonym table: all its
\* locals at the point it returns or raises.
\*   frame = None (cv2.imread could not load the file): "H, W, _ = frame.shape"
\*     raises AttributeError;
\*   res.masks is None: the early return;
\*   else grouping, glove fusion, contact scores, rules, confidence.
frame_locals(table, fr) ==
    IF IsNone(fr)
    THEN [NoLocals EXCEPT !.raised = "AttributeError"]
    ELSE IF ~Val(fr).masks
    THEN [NoLocals EXCEPT !.activity = NoClear, !.confidence = 0, !.early = TRUE]
    ELSE
    LET f == Val(fr)
        H == f.shape[1]
        W == f.shape[2]
        diag2 == W * W + H * H
        GLOVES == Bucket(table, f.dets, "gloves")
        ARM == Bucket(table, f.dets, "training arm")
        SYR == Bucket(table, f.dets, "syringe")
        RUBBER == Bucket(table, f.dets, "rubber band")
        WIPE == Bucket(table, f.dets, "disinfectant wipe")
        glove_mask == glove_mask_of(GLOVES)
        glove_box == glove_box_of(GLOVES)
        c_syr == avg_contact(glove_mask, glove_box, SYR, diag2)
        c_rub == avg_contact(glove_mask, glove_box, RUBBER, diag2)
        c_wip == avg_contact(glove_mask, glove_box, WIPE, diag2)
        c_arm == avg_contact(glove_mask, glove_box, ARM, diag2)
        L == [NoLocals EXCEPT
                !.nGLOVES = Len(GLOVES), !.nARM = Len(ARM), !.nSYR = Len(SYR),
                !.nRUBBER = Len(RUBBER), !.nWIPE = Len(WIPE),
                !.glove_mask = glove_mask, !.glove_box = glove_box,
                !.iou_syr = c_syr[1], !.d_syr = c_syr[2],
                !.iou_rub = c_rub[1], !.d_rub = c_rub[2],
                !.iou_wip = c_wip[1], !.d_wip = c_wip[2],
                !.iou_arm = c_arm[1], !.d_arm = c_arm[2]]
        activity == activity_rules(L)
    IN  [L EXCEPT !.activity = activity,
                  !.confidence = conf_activity(activity, GLOVES, ARM, SYR, RUBBER, WIPE)]

\* the value _process_single_frame returns: {"activity", "confidence"}, or the
\* exception it raises
process_single_frame(table, fr) ==
    LET L == frame_locals(table, fr)
    IN  [raised |-> L.raised, activity |-> L.activity, confidence |-> L.confidence]

----------------------------------------------------------------------------
(* Detector output used as input: an 8 x 6 image and the detections the    *)
(* detector may report for it.                                             *)

\* the pixels of an axis-aligned rectangle
Rect(x1, y1, x2, y2) == {<<x, y>> : x \in x1..(x2 - 1), y \in y1..(y2 - 1)}

Det(name, box, conf) ==
    [name |-> name, box |-> box, mask |-> Rect(box[1], box[2], box[3], box[4]),
     conf |-> conf]

\* One detection per row; names are what model.names may hold (raw, any case).
Detections ==
    << Det("white gloves", <<0, 0, 2, 2>>, 9000),
       Det("Gloves", <<2, 0, 4, 2>>, 8000),
       Det("gloves", <<6, 4, 8, 6>>, 7000),
       Det("orange arm", <<0, 1, 8, 3>>, 9500),
       Det("arm", <<0, 4, 4, 6>>, 6000),
       Det("Syringe", <<1, 1, 3, 2>>, 8500),
       Det("blue-white syringe", <<7, 5, 8, 6>>, 5000),
       Det("tourniquet", <<2, 1, 4, 2>>, 7500),
       Det("yellow rubber band", <<6, 0, 8, 1>>, 4000),
       Det("gauze", <<5, 3, 6, 4>>, 6500),
       Det("scissors", <<3, 3, 4, 4>>, 9900) >>

RECURSIVE Reverse(_)
Reverse(s) == IF s = <<>> THEN <<>> ELSE Append(Reverse(Tail(s)), Head(s))

RECURSIVE PickIn(_, _, _)
PickIn(S, i, n) ==
    IF i > n THEN <<>>
    ELSE IF i \in S THEN <<Detections[i]>> \o PickIn(S, i + 1, n)
    ELSE PickIn(S, i + 1, n)

\* the detections numbered in S, in detector order or reversed
Pick(S, rev) ==
    IF rev THEN Reverse(PickIn(S, 1, Len(Detections)))
    ELSE PickIn(S, 1, Len(Detections))

\* a loaded image (numpy array of shape (H, W, 3)) with the detector's answer
\* for it: masks = FALSE is "res.masks is None"
Image(masks, dets) == Some([shape |-> <<6, 8, 3>>, masks |-> masks, dets |-> dets])

\* every frame _process_single_frame may be handed: None (the file could not be
\* read), an image without masks, an image with any set of detections
FrameInputs ==
    {None, Image(FALSE, <<>>)}
    \cup {Image(TRUE, Pick(S, rev)) : S \in SUBSET (1..Len(Detections)), rev \in BOOLEAN}

----------------------------------------------------------------------------
(* Initial values *)

MaxThreads == 2

Threads == 1..MaxThreads

DetInit ==
    /\ lock = 0
    /\ frame_id = 0
    /\ frame_buffer = <<>>
    /\ activity_buffer = <<>>
    /\ raw2canon = Raw2CanonTable

NoResult == [kind |-> "none", activity |-> "", confidence |-> 0]

CallInit ==
    /\ pc = [t \in Threads |-> "idle"]
    /\ entry = [t \in Threads |-> ""]
    /\ frame_list = [t \in Threads |-> <<>>]
    /\ idx = [t \in Threads |-> 0]
    /\ tmp_id = [t \in Threads |-> 0]
    /\ activities = [t \in Threads |-> <<>>]
    /\ confidences = [t \in Threads |-> <<>>]
    /\ result = [t \in Threads |-> NoResult]

RunInit ==
    /\ calls = 0
    /\ processed = 0
    /\ last_in = 0
    /\ held = None

FrameIdle ==
    /\ frame = None
    /\ fpc = "idle"
    /\ flocals = NoLocals
    /\ fres = [raised |-> "", activity |-> "", confidence |-> 0]

WinIdle ==
    /\ wacts = <<>>
    /\ wconfs = <<>>
    /\ wpc = "idle"
    /\ wres = NoResult

CamIdle ==
    /\ camera = None
    /\ commands = <<>>
    /\ cam_pc = "idle"
    /\ exit_code = None
    /\ cam_trace = <<>>
    /\ executed = 0

----------------------------------------------------------------------------
(* SpecFrame: _process_single_frame applied to every frame input *)

InitFrame ==
    /\ DetInit /\ CallInit /\ RunInit /\ WinIdle /\ CamIdle
    /\ frame \in FrameInputs
    /\ fpc = "ready"
    /\ flocals = NoLocals
    /\ fres = [raised |-> "", activity |-> "", confidence |-> 0]

\* one call of self._process_single_frame(frame)
ProcessFrame ==
    /\ fpc = "ready"
    /\ flocals' = frame_locals(raw2canon, frame)
    /\ fres' = process_single_frame(raw2canon, frame)
    /\ fpc' = "done"
    /\ UNCHANGED <<frame, detVars, callVars, runVars, winVars, camVars>>

NextFrame == ProcessFrame

SpecFrame == InitFrame /\ [][NextFrame]_vars

----------------------------------------------------------------------------
(* Claims about the frame classifier (checked under SpecFrame) *)

\* the frame was classified by the rule chain (no exception, no early return)
Classified == fpc = "done" /\ fres.raised = "" /\ ~flocals.early

SyringeContact(L) == L.iou_syr > SYR_IOU_MIN \/ L.d_syr < SYR_DIST_MAX
RubberContact(L) == L.iou_rub > RUB_IOU_MIN \/ L.d_rub < RUB_DIST_MAX
FusedGloves(L) == ~IsNone(L.glove_mask) /\ ~IsNone(L.glove_box)

\* the rule table as the specification words it: <<predicate, label>> pairs
RuleTable(L) ==
    << <<FusedGloves(L) /\ L.nARM > 0 /\ L.nSYR > 0 /\ SyringeContact(L), "Injection">>,
       <<FusedGloves(L) /\ L.nARM > 0 /\ RubberContact(L) /\ L.nSYR = 0, "Tourniquet">>,
       <<FusedGloves(L) /\ L.nARM > 0 /\ L.nSYR = 0
            /\ (L.nWIPE > 0 \/ L.iou_arm > ARM_IOU_MIN), "Disinfection">> >>

\* label of the first pair whose predicate holds, else "No clear activity"
FirstMatch(rules) ==
    IF \E i \in 1..Len(rules) : rules[i][1]
    THEN rules[CHOOSE i \in 1..Len(rules) :
                  rules[i][1] /\ \A j \in 1..(i - 1) : ~rules[j][1]][2]
    ELSE NoClear

\* C1: the per-frame rules form an ordered decision list (Injection, Tourniquet,
\* Disinfection, else "No clear activity") in which the first matching rule
\* wins; a frame with two gloves, an arm, a syringe in contact and a rubber
\* band in contact is labelled Injection, never Tourniquet.
C1_DecisionList ==
    Classified =>
        /\ fres.activity = FirstMatch(RuleTable(flocals))
        /\ (flocals.nGLOVES >= 2 /\ flocals.nARM > 0
            /\ flocals.nSYR > 0 /\ SyringeContact(flocals)
            /\ flocals.nRUBBER > 0 /\ RubberContact(flocals))
           => fres.activity = "Injection"

C1_Witness ==
    /\ Classified
    /\ flocals.nGLOVES >= 2 /\ flocals.nARM > 0
    /\ flocals.nSYR > 0 /\ SyringeContact(flocals)
    /\ flocals.nRUBBER > 0 /\ RubberContact(flocals)
    /\ fres.activity = "Injection"

\* C8: any syringe detection vetoes Tourniquet and Disinfection: a frame whose
\* syringe bucket is non-empty is labelled Injection or "No clear activity",
\* the latter with confidence 0.0 when the syringe is not in contact.
C8_SyringeVeto ==
    (Classified /\ flocals.nSYR > 0) =>
        /\ fres.activity \in {"Injection", NoClear}
        /\ ~SyringeContact(flocals) => (fres.activity = NoClear /\ fres.confidence = 0)
        /\ fres.activity = NoClear => fres.confidence = 0

C8_Witness ==
    /\ Classified
    /\ flocals.nSYR > 0 /\ ~SyringeContact(flocals)
    /\ flocals.nGLOVES >= 2 /\ flocals.nARM > 0
    /\ flocals.nRUBBER > 0 /\ RubberContact(flocals) /\ flocals.nWIPE > 0
    /\ fres.activity = NoClear /\ fres.confidence = 0

\* the contact score is the "absent" value and touches under no threshold
Absent(iou, d) ==
    /\ <<iou, d>> = <<0, MILLI>>
    /\ ~(iou > SYR_IOU_MIN \/ d < SYR_DIST_MAX)
    /\ ~(iou > RUB_IOU_MIN \/ d < RUB_DIST_MAX)
    /\ ~(iou > ARM_IOU_MIN)

\* C9: the contact metric is exactly (0.0, 1.0) whenever the fused glove region
\* is absent (fewer than two glove detections) or the target bucket is empty,
\* which touches under no threshold; a frame with fewer than two glove
\* detections is labelled "No clear activity" with confidence 0.0.
C9_NoContact ==
    Classified =>
        /\ (flocals.nGLOVES < 2) <=> ~FusedGloves(flocals)
        /\ (~FusedGloves(flocals) \/ flocals.nSYR = 0)
            => Absent(flocals.iou_syr, flocals.d_syr)
        /\ (~FusedGloves(flocals) \/ flocals.nRUBBER = 0)
            => Absent(flocals.iou_rub, flocals.d_rub)
        /\ (~FusedGloves(flocals) \/ flocals.nWIPE = 0)
            => Absent(flocals.iou_wip, flocals.d_wip)
        /\ (~FusedGloves(flocals) \/ flocals.nARM = 0)
            => Absent(flocals.iou_arm, flocals.d_arm)
        /\ flocals.nGLOVES < 2 => (fres.activity = NoClear /\ fres.confidence = 0)

C9_Witness ==
    /\ Classified
    /\ flocals.nGLOVES = 1 /\ flocals.nARM > 0 /\ flocals.nSYR > 0
    /\ flocals.nRUBBER > 0 /\ flocals.nWIPE > 0
    /\ Absent(flocals.iou_syr, flocals.d_syr)
    /\ fres.activity = NoClear /\ fres.confidence = 0

----------------------------------------------------------------------------
(* infer_frames, lines 138-155: aggregation of the per-frame results *)

\* indices of the frames that are not "No clear activity" (valid_pairs)
ValidIdx(acts) == SelectSeq([i \in 1..Len(acts) |-> i], LAMBDA i : acts[i] # NoClear)

\* number of occurrences of label a in acts (Counter(acts)[a])
Count(acts, a) == Cardinality({i \in 1..Len(acts) : acts[i] = a})

\* a mutant of most_common: among equally frequent labels the last one wins
most_common_last(acts) ==
    acts[CHOOSE i \in 1..Len(acts) :
            /\ \A j \in 1..Len(acts) : Count(acts, acts[j]) <= Count(acts, acts[i])
            /\ \A j \in (i + 1)..Len(acts) : acts[j] # acts[i]
            /\ \A j \in (i + 1)..Len(acts) :
                    Count(acts, acts[j]) < Count(acts, acts[i])]

\* Counter(acts).most_common(1)[0][0]: the most frequent label; among equally
\* frequent labels the one inserted first (Counter keeps insertion order and
\* most_common(1) is max(), which returns the first maximum)
most_common(acts) ==
    acts[CHOOSE i \in 1..Len(acts) :
            /\ \A j \in 1..Len(acts) : Count(acts, acts[j]) <= Count(acts, acts[i])
            /\ \A j \in 1..(i - 1) : Count(acts, acts[j]) < Count(acts, acts[i])]

\* n**2 times the population variance of cs: n * sum(c^2) - sum(c)^2, computed
\* as the sum of squared pairwise differences
Dev2(cs) ==
    LET n == Len(cs)
        pairs == {p \in (1..n) \X (1..n) : p[1] < p[2]}
        RECURSIVE Acc(_)
        Acc(P) == IF P = {} THEN 0
                  ELSE LET p == CHOOSE q \in P : TRUE
                       IN  (cs[p[1]] - cs[p[2]]) * (cs[p[1]] - cs[p[2]]) + Acc(P \ {p})
    IN  Acc(pairs)

\* l*l compared with d (d < 2^31), without overflowing 32 bits
SqGt(l, d) == l >= 46341 \/ l * l > d
SqEq(l, d) == l < 46341 /\ l * l = d

\* a mutant of robust_conf: the mean over all surviving frames' confidences,
\* whatever their label
robust_conf_all(act_confs, confs) ==
    RoundDiv(SumSeq(confs), 100 * Len(confs))

\* round(float(np.clip(mean - 0.5 * std, 0.0, 1.0)), 2) of act_confs (in CONF),
\* in hundredths.  With n = len, S = sum and D = Dev2:
\*     mean - 0.5 * std = (2 S - sqrt(D)) / (2 n CONF)
\* so 100 * robust >= k - 1/2  iff  2 S - 200 n k + 100 n >= sqrt(D).
\* confs (the unfiltered list) is not read.
robust_conf(act_confs, confs) ==
    LET n == Len(act_confs)
        S == SumSeq(act_confs)
        D == Dev2(act_confs)
        L(k) == 2 * S - 200 * n * k + 100 * n
        above(k) == L(k) >= 0 /\ SqGt(L(k), D)
        tie(k) == L(k) >= 0 /\ SqEq(L(k), D)
        \* clip(.., 0.0, 1.0) keeps the rounded value within 0 .. 100
        ok(k) == k = 0 \/ above(k) \/ (tie(k) /\ k % 2 = 0)
    IN  CHOOSE k \in 0..100 : ok(k) /\ \A k2 \in (k + 1)..100 : ~ok(k2)

\* the part of infer_frames after the lock is released: from the lists
\* activities and confidences to the returned dict
aggregate(acts0, confs0) ==
    LET valid == ValidIdx(acts0)
        acts == [i \in 1..Len(valid) |-> acts0[valid[i]]]
        confs == [i \in 1..Len(valid) |-> confs0[valid[i]]]
    IN  IF Len(valid) = 0
        THEN [kind |-> "window", activity |-> "No detection", confidence |-> 0]
        ELSE LET main_act == most_common(acts)
                 mine == SelectSeq([i \in 1..Len(acts) |-> i], LAMBDA i : acts[i] = main_act)
                 act_confs == [i \in 1..Len(mine) |-> confs[mine[i]]]
             IN  [kind |-> "window", activity |-> main_act,
                  confidence |-> robust_conf(act_confs, confs)]

----------------------------------------------------------------------------
(* SpecWindow: the aggregation applied to every list of per-frame results *)

MaxWindow == 5

\* per-frame results: "No clear activity" always carries 0.0; the others a
\* confidence in CONF units
FrameResults ==
    { <<NoClear, 0>>, <<"Injection", 9000>>, <<"Injection", 8000>>,
      <<"Injection", 7000>>, <<"Tourniquet", 6000>>, <<"Tourniquet", 8162>> }

Windows == UNION {[1..n -> FrameResults] : n \in 1..MaxWindow}

InitWindow ==
    /\ DetInit /\ CallInit /\ RunInit /\ FrameIdle /\ CamIdle
    /\ \E w \in Windows :
        /\ wacts = [i \in 1..Len(w) |-> w[i][1]]
        /\ wconfs = [i \in 1..Len(w) |-> w[i][2]]
    /\ wpc = "ready"
    /\ wres = NoResult

Aggregate ==
    /\ wpc = "ready"
    /\ wres' = aggregate(wacts, wconfs)
    /\ wpc' = "done"
    /\ UNCHANGED <<wacts, wconfs, detVars, callVars, runVars, frameVars, camVars>>

NextWindow == Aggregate

SpecWindow == InitWindow /\ [][NextWindow]_vars

----------------------------------------------------------------------------
(* Claims about the window aggregator (checked under SpecWindow) *)

RECURSIVE SumOver(_, _)
SumOver(I, f) ==
    IF I = {} THEN 0
    ELSE LET i == CHOOSE j \in I : TRUE IN f[i] + SumOver(I \ {i}, f)

\* the frames that vote: everything but "No clear activity"
Voters == {i \in 1..Len(wacts) : wacts[i] # NoClear}
Votes(a) == Cardinality({i \in Voters : wacts[i] = a})
FirstVote(a) == CHOOSE i \in Voters : wacts[i] = a /\ \A j \in Voters : wacts[j] = a => i <= j

\* C3: frames labelled "No clear activity" never vote; the window activity is
\* the most frequent label among the remaining frames, ties going to the label
\* met first in frame order; it is "No detection" with confidence 0.0 exactly
\* when no frame remains.
C3_MajorityVote ==
    wpc = "done" =>
        /\ (Voters = {}) <=> (wres.activity = "No detection")
        /\ Voters = {} => wres.confidence = 0
        /\ Voters # {} =>
            /\ \E i \in Voters : wacts[i] = wres.activity
            /\ \A j \in Voters :
                \/ Votes(wacts[j]) < Votes(wres.activity)
                \/ /\ Votes(wacts[j]) = Votes(wres.activity)
                   /\ FirstVote(wres.activity) <= FirstVote(wacts[j])

\* a tie between two labels behind a leading "No clear activity" frame
C3_Witness ==
    /\ wpc = "done"
    /\ Len(wacts) >= 3 /\ wacts[1] = NoClear
    /\ \E i, j \in Voters :
        /\ i < j /\ wacts[i] # wacts[j]
        /\ Votes(wacts[i]) = Votes(wacts[j])
        /\ FirstVote(wacts[i]) = i
        /\ \A k \in Voters : Votes(wacts[k]) <= Votes(wacts[i])
        /\ \A k \in Voters : k < i => Votes(wacts[k]) < Votes(wacts[i])
        /\ wres.activity = wacts[i]

\* the frames that voted for the window's activity, and their statistics
Majority == {i \in Voters : wacts[i] = wres.activity}
MajSum == SumOver(Majority, wconfs)
MajDev2 ==
    SumOver({p \in Majority \X Majority : p[1] < p[2]},
            [p \in Majority \X Majority |->
                (wconfs[p[1]] - wconfs[p[2]]) * (wconfs[p[1]] - wconfs[p[2]])])

\* c hundredths is mean - 0.5 * std of the majority confidences, clipped to
\* [0, 1] and rounded to the nearest hundredth:  |c - 100 * robust| <= 1/2
IsRobustConf(c) ==
    LET n == Cardinality(Majority)
        hi == 2 * MajSum - 200 * n * c + 100 * n   \* >= sqrt(D) iff c - 1/2 <= x
        lo == 2 * MajSum - 200 * n * c - 100 * n   \* <= sqrt(D) iff x <= c + 1/2
    IN  /\ c \in 0..100
        /\ c = 0 \/ (hi >= 0 /\ (SqGt(hi, MajDev2) \/ SqEq(hi, MajDev2)))
        /\ lo <= 0 \/ ~SqGt(lo, MajDev2)

IsExampleWindow ==
    /\ wacts = <<"Injection", "Injection", "Injection", NoClear, "Tourniquet">>
    /\ wconfs = <<9000, 8000, 7000, 0, 6000>>

\* C4 as stated: ... the confidence lies in [0, 1], never exceeds the mean of
\* the majority frames' confidences, and the example window gives Injection
\* with 0.76.
C4_Original ==
    (wpc = "done" /\ Voters # {}) =>
        /\ IsRobustConf(wres.confidence)
        /\ wres.confidence * 100 * Cardinality(Majority) <= MajSum
        /\ IsExampleWindow => (wres.activity = "Injection" /\ wres.confidence = 76)

\* C4 (amended): the confidence of a WindowResult is computed from the
\* confidences of only the frames that voted for the majority label, as mean
\* minus 0.5 times the population standard deviation, clipped to [0, 1], then
\* rounded to 2 decimals; it lies in [0, 1] and exceeds the mean of the
\* majority frames' confidences by at most the rounding step 0.005; the
\* example window gives Injection with 0.76.
C4_RobustConfidence ==
    (wpc = "done" /\ Voters # {}) =>
        /\ IsRobustConf(wres.confidence)
        /\ wres.confidence * 100 * Cardinality(Majority)
                <= MajSum + 50 * Cardinality(Majority)
        /\ IsExampleWindow => (wres.activity = "Injection" /\ wres.confidence = 76)

C4_Witness ==
    /\ wpc = "done"
    /\ IsExampleWindow
    /\ wres.activity = "Injection" /\ wres.confidence = 76

----------------------------------------------------------------------------
(* camera.py *)

\* cv2.VideoCapture handle: what isOpened() answers
Handle(opened) == Some([opened |-> opened])
IsOpen(cam) == ~IsNone(cam) /\ Val(cam).opened

MSG_RUNNING == "Camera already running."
MSG_STARTED == "Camera started."
MSG_NOT_OPENED == "Camera could not be opened. Check permissions and device availability."
MSG_ALREADY_STOPPED == "Camera already stopped."
MSG_STOPPED == "Camera stopped."
MSG_NOT_STARTED == "Camera is not started or lost connection."
MSG_READ_FAILED == "Failed to read frame from camera."
MSG_WRITE_FAILED == "Failed to write frame to disk."
MSG_UNKNOWN == "Unknown command"
EXIT == "__EXIT__"
FILEPATH == "frame_<timestamp>.jpg"

\* start_camera(): open_ok is whether cv2.VideoCapture(0) opened the device
start_camera(cam, open_ok) ==
    IF IsOpen(cam) THEN [success |-> TRUE, payload |-> MSG_RUNNING, camera |-> cam]
    ELSE IF ~open_ok
    THEN [success |-> FALSE, payload |-> MSG_NOT_OPENED, camera |-> None]
    ELSE [success |-> TRUE, payload |-> MSG_STARTED, camera |-> Handle(TRUE)]

\* stop_camera()
stop_camera(cam) ==
    IF IsNone(cam) THEN [success |-> TRUE, payload |-> MSG_ALREADY_STOPPED, camera |-> cam]
    ELSE [success |-> TRUE, payload |-> MSG_STOPPED, camera |-> None]

\* a mutant of capture_frame: the handle is not checked before reading
capture_frame_unchecked(cam, read_ok, write_ok) ==
    IF ~read_ok THEN [success |-> FALSE, payload |-> MSG_READ_FAILED, camera |-> cam]
    ELSE IF ~write_ok THEN [success |-> FALSE, payload |-> MSG_WRITE_FAILED, camera |-> cam]
    ELSE [success |-> TRUE, payload |-> FILEPATH, camera |-> cam]

\* capture_frame(): read_ok is camera.read()'s ret, write_ok is cv2.imwrite's
capture_frame(cam, read_ok, write_ok) ==
    IF IsNone(cam) \/ ~Val(cam).opened
    THEN [success |-> FALSE, payload |-> MSG_NOT_STARTED, camera |-> cam]
    ELSE IF ~read_ok THEN [success |-> FALSE, payload |-> MSG_READ_FAILED, camera |-> cam]
    ELSE IF ~write_ok THEN [success |-> FALSE, payload |-> MSG_WRITE_FAILED, camera |-> cam]
    ELSE [success |-> TRUE, payload |-> FILEPATH, camera |-> cam]

\* command.strip().lower()
Normalize(command) ==
    CASE command = " Capture" -> "capture"
      [] command = "Quit" -> "quit"
      [] OTHER -> command

\* execute_command(command) with the device's answers
execute_command(command, cam, open_ok, read_ok, write_ok) ==
    LET c == Normalize(command)
    IN  IF c = "start" THEN start_camera(cam, open_ok)
        ELSE IF c = "capture" THEN capture_frame(cam, read_ok, write_ok)
        ELSE IF c = "stop" THEN stop_camera(cam)
        ELSE IF c \in {"exit", "quit"}
        THEN [success |-> TRUE, payload |-> EXIT, camera |-> stop_camera(cam).camera]
        ELSE [success |-> FALSE, payload |-> MSG_UNKNOWN, camera |-> cam]

\* handle_commands, lines 93-96: the value the loop returns after a command
\* with outcome r, or None when it goes on to the next command
loop_returns(r) ==
    IF r.success /\ r.payload = EXIT THEN Some(0)
    ELSE IF ~r.success THEN Some(1)
    ELSE None

\* what handle_commands prints for outcome r (lines 89-92)
printed_line(r) ==
    IF r.payload # "" /\ r.payload # EXIT
    THEN IF r.success THEN <<"OK:", r.payload>> ELSE <<"ERROR:", r.payload>>
    ELSE IF r.success THEN <<"OK">> ELSE <<"ERROR:", r.payload>>

MaxCommands == 3

Commands == {"start", " Capture", "stop", "exit", "Quit", "reboot"}

\* the device failure met while executing command c on handle cam, if any
DeviceFailure(c, cam, open_ok, read_ok, write_ok) ==
    IF c = "start" /\ ~IsOpen(cam) /\ ~open_ok THEN "open"
    ELSE IF c = "capture" /\ IsOpen(cam) /\ ~read_ok THEN "read"
    ELSE IF c = "capture" /\ IsOpen(cam) /\ read_ok /\ ~write_ok THEN "write"
    ELSE ""

InitCamera ==
    /\ DetInit /\ CallInit /\ RunInit /\ FrameIdle /\ WinIdle
    /\ camera = None
    /\ commands \in UNION {[1..n -> Commands] : n \in 0..MaxCommands}
    /\ cam_pc = "running"
    /\ exit_code = None
    /\ cam_trace = <<>>
    /\ executed = 0

\* one iteration of "for command in commands"
HandleCommand ==
    /\ cam_pc = "running"
    /\ executed < Len(commands)
    /\ \E open_ok, read_ok, write_ok \in BOOLEAN :
        LET command == commands[executed + 1]
            r == execute_command(command, camera, open_ok, read_ok, write_ok)
            ret == loop_returns(r)
        IN  /\ camera' = r.camera
            /\ cam_trace' = Append(cam_trace,
                    [cmd |-> Normalize(command), before |-> camera, after |-> r.camera,
                     failure |-> DeviceFailure(Normalize(command), camera,
                                               open_ok, read_ok, write_ok),
                     success |-> r.success, payload |-> r.payload,
                     printed |-> printed_line(r)])
            /\ executed' = executed + 1
            /\ exit_code' = ret
            /\ cam_pc' = IF IsNone(ret) THEN "running" ELSE "returned"
    /\ UNCHANGED <<commands, detVars, callVars, runVars, frameVars, winVars>>

\* the list is exhausted: "return 0"
HandleCommandsEnd ==
    /\ cam_pc = "running"
    /\ executed = Len(commands)
    /\ exit_code' = Some(0)
    /\ cam_pc' = "returned"
    /\ UNCHANGED <<camera, commands, cam_trace, executed,
                   detVars, callVars, runVars, frameVars, winVars>>

\* the device drops out between two commands: isOpened() turns False
\* ("Camera is not started or lost connection.")
DeviceLost ==
    /\ cam_pc = "running"
    /\ IsOpen(camera)
    /\ camera' = Handle(FALSE)
    /\ UNCHANGED <<commands, cam_pc, exit_code, cam_trace, executed,
                   detVars, callVars, runVars, frameVars, winVars>>

NextCamera == HandleCommand \/ HandleCommandsEnd \/ DeviceLost

SpecCamera == InitCamera /\ [][NextCamera]_vars

----------------------------------------------------------------------------
(* C10 (checked under SpecCamera) *)

\* the camera was started successfully before command i and not stopped since
StartedBefore(i) ==
    \E j \in 1..(i - 1) :
        /\ cam_trace[j].cmd = "start" /\ cam_trace[j].success
        /\ \A k \in (j + 1)..(i - 1) : cam_trace[k].cmd \notin {"stop", "exit", "quit"}

FailureMessage(f) ==
    CASE f = "open" -> MSG_NOT_OPENED
      [] f = "read" -> MSG_READ_FAILED
      [] f = "write" -> MSG_WRITE_FAILED

\* C10: capture_frame succeeds only where the camera handle exists and is open
\* (started successfully and not stopped since); in every other state and on
\* every device failure the command returns (False, message); a failed start
\* leaves the handle None; start on a running camera and stop on a stopped one
\* succeed and change nothing; handle_commands executes no command after the
\* first failing one (exit code 1) or after exit / quit (exit code 0, camera
\* stopped).
C10_CameraCommands ==
    /\ \A i \in 1..Len(cam_trace) :
        LET e == cam_trace[i]
        IN  /\ (e.cmd = "capture" /\ e.success) => (IsOpen(e.before) /\ StartedBefore(i))
            /\ (e.cmd = "capture" /\ ~IsOpen(e.before))
                => (~e.success /\ e.payload = MSG_NOT_STARTED)
            /\ e.failure # ""
                => (~e.success /\ e.payload = FailureMessage(e.failure)
                    /\ e.printed = <<"ERROR:", e.payload>>)
            /\ (e.cmd = "start" /\ ~e.success) => IsNone(e.after)
            /\ (e.cmd = "start" /\ IsOpen(e.before)) => (e.success /\ e.after = e.before)
            /\ (e.cmd = "stop" /\ IsNone(e.before)) => (e.success /\ e.after = e.before)
            /\ i < Len(cam_trace) => (e.success /\ e.payload # EXIT)
            /\ (i = Len(cam_trace) /\ ~e.success)
                => (cam_pc = "returned" /\ exit_code = Some(1))
            /\ (i = Len(cam_trace) /\ e.payload = EXIT)
                => (cam_pc = "returned" /\ exit_code = Some(0) /\ IsNone(camera))
    /\ executed = Len(cam_trace)
    /\ cam_pc = "returned" <=> ~IsNone(exit_code)

C10_Witness ==
    /\ Len(cam_trace) = 3
    /\ cam_trace[1].cmd = "start" /\ cam_trace[1].success
    /\ cam_trace[2].cmd = "capture" /\ cam_trace[2].success
    /\ cam_trace[3].cmd = "capture" /\ cam_trace[3].failure = "read"
    /\ ~cam_trace[3].success
    /\ cam_pc = "returned" /\ exit_code = Some(1)

----------------------------------------------------------------------------
(* Calls of the shared detector through the entry points *)

MaxFrames == 2
\* calls made in all: by the concurrent callers (Spec), by the one caller
\* (SpecCalls)
MaxSharedCalls == 2
MaxCalls == 3

\* what cv2.imread returns for each frame path, with the detector's answer for
\* the image: None for a file that cannot be read
Paths == {"inj.jpg", "blank.jpg", "missing.jpg"}

imread(path) ==
    CASE path = "inj.jpg" -> Image(TRUE, Pick({1, 2, 4, 6}, FALSE))
      [] path = "blank.jpg" -> Image(FALSE, <<>>)
      [] OTHER -> None

FrameLists == UNION {[1..n -> Paths] : n \in 0..MaxFrames}

\* the frame lists of the concurrent callers: a readable and an unreadable frame
SharedFrameLists == UNION {[1..n -> {"inj.jpg", "missing.jpg"}] : n \in 0..MaxFrames}

Entries == {"infer_frames", "model_inference", "main"}

\* _to_frame_list(sys.argv[1:]): str(Path(p)) of every argument, empty strings
\* dropped; the paths of Paths are already in normal form and non-empty
to_frame_list(argv) == SelectSeq(argv, LAMBDA q : q # "")

Window(activity, confidence) ==
    [kind |-> "window", activity |-> activity, confidence |-> confidence]
ErrorResult(message) == [kind |-> "error", activity |-> message, confidence |-> 0]
Raised(exc) == [kind |-> "raised", activity |-> exc, confidence |-> 0]
\* main's "except Exception": print {"error": str(exc)} and sys.exit(1)
Exit1(message) == [kind |-> "exit1", activity |-> message, confidence |-> 0]

\* what the caller of entry point e sees when infer_frames raised exc
Propagate(e, exc) == IF e = "main" THEN Exit1(exc) ELSE Raised(exc)

\* a mutant of early_result: model_inference hands an empty list on to
\* infer_frames
early_result_no_guard(e, fl) ==
    IF e = "main" /\ to_frame_list(fl) = <<>>
    THEN Some(Exit1("No valid frame paths provided"))
    ELSE IF Len(fl) = 0
    THEN Some(Window("No frames", 0))
    ELSE None

\* the checks made before any frame is touched: the result returned at once,
\* or None when the call goes on to "with self.lock"
\*   main:             frames empty -> ValueError, caught: exit 1
\*   model_inference:  "if not frame_paths: return {error: No image found!}"
\*   infer_frames:     "if not frame_list ...: return No frames, 0.0"
early_result(e, fl) ==
    IF e = "main" /\ to_frame_list(fl) = <<>>
    THEN Some(Exit1("No valid frame paths provided"))
    ELSE IF e = "model_inference" /\ Len(fl) = 0
    THEN Some(ErrorResult("No image found!"))
    ELSE IF Len(fl) = 0
    THEN Some(Window("No frames", 0))
    ELSE None

Init ==
    /\ DetInit /\ CallInit /\ RunInit /\ FrameIdle /\ WinIdle /\ CamIdle

\* thread t calls entry point e with frame list fl
Call(t, e, fl) ==
    /\ pc[t] = "idle"
    /\ calls' = calls + 1
    /\ entry' = [entry EXCEPT ![t] = e]
    /\ frame_list' = [frame_list EXCEPT ![t] = IF e = "main" THEN to_frame_list(fl) ELSE fl]
    /\ LET r == early_result(e, fl)
       IN  IF IsNone(r)
           THEN /\ pc' = [pc EXCEPT ![t] = "lock"]
                /\ result' = [result EXCEPT ![t] = NoResult]
           ELSE /\ pc' = [pc EXCEPT ![t] = "done"]
                /\ result' = [result EXCEPT ![t] = Val(r)]
    /\ UNCHANGED <<idx, tmp_id, activities, confidences, processed, last_in, held,
                   detVars, frameVars, winVars, camVars>>

\* a mutant of Acquire: the lock is taken without waiting for it to be free
AcquireNoWait(t) ==
    /\ pc[t] = "lock"
    /\ lock' = t
    /\ idx' = [idx EXCEPT ![t] = 1]
    /\ pc' = [pc EXCEPT ![t] = "read"]
    /\ UNCHANGED <<frame_id, frame_buffer, activity_buffer, raw2canon,
                   entry, frame_list, tmp_id, activities, confidences, result,
                   runVars, frameVars, winVars, camVars>>

\* "with self.lock:" - blocks until the lock is free
Acquire(t) ==
    /\ pc[t] = "lock"
    /\ lock = 0
    /\ lock' = t
    /\ idx' = [idx EXCEPT ![t] = 1]
    /\ pc' = [pc EXCEPT ![t] = "read"]
    /\ UNCHANGED <<frame_id, frame_buffer, activity_buffer, raw2canon,
                   entry, frame_list, tmp_id, activities, confidences, result,
                   runVars, frameVars, winVars, camVars>>

\* "frame = cv2.imread(frame_path)" and the load of "self.frame_id += 1"
ReadFrame(t) ==
    /\ pc[t] = "read"
    /\ tmp_id' = [tmp_id EXCEPT ![t] = frame_id]
    /\ pc' = [pc EXCEPT ![t] = "inc"]
    /\ UNCHANGED <<detVars, entry, frame_list, idx, activities, confidences, result,
                   runVars, frameVars, winVars, camVars>>

\* the store of "self.frame_id += 1", then the call of _process_single_frame up
\* to the model call: "frame.shape" raises on a frame that is None, the
\* exception leaves the with block (releasing the lock) and infer_frames
EnterFrame(t) ==
    /\ pc[t] = "inc"
    /\ frame_id' = tmp_id[t] + 1
    /\ processed' = processed + 1
    /\ LET fr == imread(frame_list[t][idx[t]])
       IN  IF IsNone(fr)
           THEN /\ lock' = IF lock = t THEN 0 ELSE lock
                /\ result' = [result EXCEPT
                        ![t] = Propagate(entry[t], process_single_frame(raw2canon, fr).raised)]
                /\ pc' = [pc EXCEPT ![t] = "done"]
                /\ UNCHANGED last_in
           ELSE /\ last_in' = t
                /\ pc' = [pc EXCEPT ![t] = "model"]
                /\ UNCHANGED <<lock, result>>
    /\ UNCHANGED <<frame_buffer, activity_buffer, raw2canon,
                   entry, frame_list, idx, tmp_id, activities, confidences,
                   calls, held, frameVars, winVars, camVars>>

\* a mutant of ModelReturn: the per-frame results are kept in
\* self.activity_buffer (deque(maxlen=window_size)) across calls, and the vote
\* is taken over the buffer
ModelReturnBuffered(t) ==
    /\ pc[t] = "model"
    /\ LET res == process_single_frame(raw2canon, imread(frame_list[t][idx[t]]))
           acts == Append(activities[t], res.activity)
           confs == Append(confidences[t], res.confidence)
           buf == LET b == Append(activity_buffer, <<res.activity, res.confidence>>)
                  IN  IF Len(b) > 5 THEN Tail(b) ELSE b
       IN  /\ activities' = [activities EXCEPT ![t] = acts]
           /\ confidences' = [confidences EXCEPT ![t] = confs]
           /\ activity_buffer' = buf
           /\ IF idx[t] < Len(frame_list[t])
              THEN /\ idx' = [idx EXCEPT ![t] = idx[t] + 1]
                   /\ pc' = [pc EXCEPT ![t] = "read"]
                   /\ UNCHANGED <<lock, result>>
              ELSE /\ lock' = IF lock = t THEN 0 ELSE lock
                   /\ result' = [result EXCEPT
                        ![t] = aggregate([i \in 1..Len(buf) |-> buf[i][1]],
                                         [i \in 1..Len(buf) |-> buf[i][2]])]
                   /\ pc' = [pc EXCEPT ![t] = "done"]
                   /\ UNCHANGED idx
    /\ UNCHANGED <<frame_id, frame_buffer, raw2canon, entry, frame_list, tmp_id,
                   runVars, frameVars, winVars, camVars>>

\* the model call returns and _process_single_frame classifies the frame; the
\* result is appended ("if res:" holds for every dict it returns); after the
\* last frame the lock is released and the window is aggregated and returned
ModelReturn(t) ==
    /\ pc[t] = "model"
    /\ LET res == process_single_frame(raw2canon, imread(frame_list[t][idx[t]]))
           acts == Append(activities[t], res.activity)
           confs == Append(confidences[t], res.confidence)
       IN  /\ activities' = [activities EXCEPT ![t] = acts]
           /\ confidences' = [confidences EXCEPT ![t] = confs]
           /\ IF idx[t] < Len(frame_list[t])
              THEN /\ idx' = [idx EXCEPT ![t] = idx[t] + 1]
                   /\ pc' = [pc EXCEPT ![t] = "read"]
                   /\ UNCHANGED <<lock, result>>
              ELSE /\ lock' = IF lock = t THEN 0 ELSE lock
                   /\ result' = [result EXCEPT ![t] = aggregate(acts, confs)]
                   /\ pc' = [pc EXCEPT ![t] = "done"]
                   /\ UNCHANGED idx
    /\ UNCHANGED <<frame_id, frame_buffer, activity_buffer, raw2canon,
                   entry, frame_list, tmp_id,
                   runVars, frameVars, winVars, camVars>>

\* the caller takes the result and the thread is free for another call; with
\* keep, the call is remembered in held
Finish(t, keep) ==
    /\ pc[t] = "done"
    /\ IF keep
       THEN /\ IsNone(held)
            /\ held' = Some([entry |-> entry[t], frame_list |-> frame_list[t],
                             result |-> result[t]])
       ELSE UNCHANGED held
    /\ pc' = [pc EXCEPT ![t] = "idle"]
    /\ entry' = [entry EXCEPT ![t] = ""]
    /\ frame_list' = [frame_list EXCEPT ![t] = <<>>]
    /\ idx' = [idx EXCEPT ![t] = 0]
    /\ tmp_id' = [tmp_id EXCEPT ![t] = 0]
    /\ activities' = [activities EXCEPT ![t] = <<>>]
    /\ confidences' = [confidences EXCEPT ![t] = <<>>]
    /\ result' = [result EXCEPT ![t] = NoResult]
    /\ UNCHANGED <<calls, processed, last_in, detVars, frameVars, winVars, camVars>>

\* Spec: MaxThreads threads call infer_frames on the one shared detector
Next ==
    \E t \in Threads :
        \/ /\ calls < MaxSharedCalls
           /\ \E fl \in SharedFrameLists : Call(t, "infer_frames", fl)
        \/ Acquire(t)
        \/ ReadFrame(t)
        \/ EnterFrame(t)
        \/ ModelReturn(t)
        \/ Finish(t, FALSE)

Spec == Init /\ [][Next]_vars

\* SpecCalls: one caller makes call after call through any entry point
NextCalls ==
    \/ /\ calls < MaxCalls
       /\ \E e \in Entries, fl \in FrameLists : Call(1, e, fl)
    \/ Acquire(1)
    \/ ReadFrame(1)
    \/ EnterFrame(1)
    \/ ModelReturn(1)
    \/ \E keep \in BOOLEAN : Finish(1, keep)

SpecCalls == Init /\ [][NextCalls]_vars

----------------------------------------------------------------------------
(* Claims about concurrent callers (checked under Spec) *)

\* the threads inside "with self.lock"
InLock == {t \in Threads : pc[t] \in {"read", "inc", "model"}}

\* C5: of the threads calling infer_frames on the one shared detector at most
\* one is inside the detector (the model call) at any time; every increment of
\* frame_id happens under the lock and none is lost (frame_id has grown by the
\* number of frames processed); the frames of two windows are never
\* interleaved through the detector.
C5_MutualExclusion ==
    /\ Cardinality({t \in Threads : pc[t] = "model"}) <= 1
    /\ Cardinality(InLock) <= 1
    /\ \A t \in InLock : lock = t
    /\ frame_id = processed
    /\ (\A t \in Threads : pc[t] \in {"idle", "done"}) => (lock = 0 /\ frame_id = processed)
    /\ \A t \in Threads : (pc[t] \in {"read", "inc"} /\ idx[t] > 1) => last_in = t

\* one thread is in the model with its second frame while the other waits
C5_Witness ==
    \E t, u \in Threads :
        /\ t # u
        /\ pc[t] = "model" /\ idx[t] = 2 /\ last_in = t
        /\ pc[u] = "lock"
        /\ frame_id = 2 /\ processed = 2

\* C6: per-frame classification never raises: for every frame handed to a
\* window call, also one that could not be loaded (cv2.imread gave None),
\* _process_single_frame returns a FrameResult, and the window call processes
\* all its frames and returns a WindowResult.
C6_NeverRaises ==
    \A t \in Threads :
        (pc[t] = "done" /\ frame_list[t] # <<>>) =>
            /\ result[t].kind = "window"
            /\ Len(activities[t]) = Len(frame_list[t])

----------------------------------------------------------------------------
(* Claims about the entry points and successive calls (checked under SpecCalls) *)

ZeroFrames == pc[1] = "done" /\ frame_list[1] = <<>>

Repeated ==
    /\ pc[1] = "done"
    /\ ~IsNone(held)
    /\ Val(held).entry = entry[1]
    /\ Val(held).frame_list = frame_list[1]

====
